---- MODULE Spec2Model ----
(***************************************************************************)
(* State-machine model of the transferhook program                         *)
(* (programs/transferhook/src/lib.rs).                                     *)
(*                                                                         *)
(* The state is the account store the program works on: the program-derived*)
(* slots (Counter records and extra-account-meta lists) and the token      *)
(* accounts whose extension state the hook reads.  Every instruction is one*)
(* atomic action: account validation, the handler body, and the write-back *)
(* of the accounts the Accounts struct declares `mut`/`init` on exit.  A   *)
(* failing instruction leaves the store as it was.                         *)
(*                                                                         *)
(* `last` records the most recent unit of work (operation, handles,        *)
(* inputs, result, the store before it, and what the hook handler saw), so *)
(* that properties of single operations are state predicates.              *)
(*                                                                         *)
(* Not modelled: lamports / rent, transaction-level writable flags (every  *)
(* handle is passed writable), the system_program handle (always the real  *)
(* one), log output other than the in-call count.                          *)
(***************************************************************************)
EXTENDS Integers, Sequences, FiniteSets, TLC

VARIABLES slots, tok, last

vars == <<slots, tok, last>>

(***************************************************************************)
(* Bounds and input sets                                                   *)
(***************************************************************************)
\* Width in bits of Counter.count in the model (u64 in the program).
CountBits == 2
\* Longest list of extra-account metas the codec is exercised on.
MaxMetas == 2

NoKey == "none"
Authorities == {"A1", "A2"}
Mints == {"M1", "M2"}
CounterSlots == {"C1", "C2"}
ExtraSlots == {"E1", "E2"}
Slots == CounterSlots \cup ExtraSlots
\* T1, T2: token accounts of the asset program; F1: an account of another
\* program whose bytes its owner chooses.
TokenAccounts == {"T1", "T2", "F1"}
Amounts == {1, 1000000}
Bumps == {254, 255}

ProgramId == "transferhook"
SystemProgramId == "system"
Token2022Id == "token2022"
OtherProgramId == "other"

(***************************************************************************)
(* Derived addresses                                                       *)
(***************************************************************************)
\* find_program_address(&[authority.key()], program_id).0
CounterPda(a) ==
    CASE a = "A1" -> "C1"
      [] a = "A2" -> "C2"
      [] OTHER -> NoKey

\* find_program_address(&[b"extra-account-metas", mint.key()], program_id).0
ExtraPda(m) ==
    CASE m = "M1" -> "E1"
      [] m = "M2" -> "E2"
      [] OTHER -> NoKey

\* find_program_address(&[b"extra-account-metas", mint.key()], program_id).1
CanonicalBump(m) ==
    CASE m = "M1" -> 255
      [] m = "M2" -> 254
      [] OTHER -> 0

\* The address the runtime derives from the signer seeds
\* collect_extra_account_metas_signer_seeds(mint, &[bump_seed]): the slot of
\* the mint for the canonical bump, an unrelated address otherwise.
SignerSeedsAddress(m, bump_seed) ==
    IF bump_seed = CanonicalBump(m) THEN ExtraPda(m) ELSE NoKey

(***************************************************************************)
(* Bytes                                                                   *)
(***************************************************************************)
PUBKEY_BYTES == 32

\* Pubkey::to_bytes of the addresses of the model: byte 1 identifies the key.
KeyId(k) ==
    CASE k = "C1" -> 1
      [] k = "C2" -> 2
      [] k = "E1" -> 3
      [] k = "E2" -> 4
      [] OTHER -> 0

KeyToBytes(k) == [i \in 1..PUBKEY_BYTES |-> IF i = 1 THEN KeyId(k) ELSE 0]

KeyFromBytes(b) ==
    IF \E k \in Slots : KeyToBytes(k) = b
    THEN CHOOSE k \in Slots : KeyToBytes(k) = b
    ELSE NoKey

RECURSIVE ToLeBytes(_, _)
\* uN::to_le_bytes: n bytes, least significant first.
ToLeBytes(x, n) ==
    IF n = 0 THEN <<>> ELSE <<x % 256>> \o ToLeBytes(x \div 256, n - 1)

RECURSIVE FromLeBytes(_)
\* uN::from_le_bytes.
FromLeBytes(b) ==
    IF Len(b) = 0 THEN 0 ELSE b[1] + 256 * FromLeBytes(Tail(b))

Zeros(n) == [i \in 1..n |-> 0]

(***************************************************************************)
(* Account store                                                           *)
(***************************************************************************)
\* A slot nobody has allocated: owned by the system program, no data.
EmptySlot ==
    [prog |-> SystemProgramId, kind |-> "empty", owner |-> NoKey, count |-> 0,
     bytes |-> <<>>]

\* #[account] pub struct Counter { owner, count } stored behind its
\* discriminator in a slot owned by this program.
CounterRecord(o, c) ==
    [prog |-> ProgramId, kind |-> "counter", owner |-> o, count |-> c,
     bytes |-> <<>>]

\* Token account buffers: owning program, whether the bytes unpack as a
\* token account ("garbage" does not), whether they carry the
\* TransferHookAccount extension ("noext" does not), and its flag.
TokenData(p, f, t) == [prog |-> p, form |-> f, transferring |-> t]

ForgedData ==
    {TokenData(OtherProgramId, "garbage", FALSE),
     TokenData(OtherProgramId, "noext", FALSE),
     TokenData(OtherProgramId, "ext", FALSE),
     TokenData(OtherProgramId, "ext", TRUE)}

\* The account handles of one instruction, in the order of the widest
\* Accounts struct; NoKey where the instruction has no such handle.
Accs(s, m, d, a, e, c) ==
    [source |-> s, mint |-> m, destination |-> d, authority |-> a,
     extra_account |-> e, counter |-> c]

NoAccs == Accs(NoKey, NoKey, NoKey, NoKey, NoKey, NoKey)

\* What a unit of work did with the hook: how often it entered transfer_hook,
\* with which handles, whether the body ran (the accounts validated), and then
\* the amount the body received and the count it logged.
HookSeen(calls, accs, ran, amount, count) ==
    [calls |-> calls, accs |-> accs, ran |-> ran, amount |-> amount,
     count |-> count]

NoHook == HookSeen(0, NoAccs, FALSE, 0, 0)

(***************************************************************************)
(* Instruction buffers of the transfer-hook interface                      *)
(***************************************************************************)
\* ExecuteInstruction::SPL_DISCRIMINATOR and those of the two other
\* instructions of the interface.
ExecuteDiscriminator == <<105, 37, 101, 197, 75, 251, 102, 26>>
InitializeListDiscriminator == <<43, 34, 13, 49, 167, 88, 235, 235>>
UpdateListDiscriminator == <<157, 105, 42, 146, 102, 85, 241, 174>>
UnknownDiscriminator == <<1, 2, 3, 4, 5, 6, 7, 8>>

DiscLen == Len(ExecuteDiscriminator)
\* u64
AmountLen == 8

\* The buffer the host sends: the Execute opcode, then the amount as u64 LE.
ExecuteBuffer(a) == ExecuteDiscriminator \o ToLeBytes(a, AmountLen)

InstructionBuffers ==
    {ExecuteBuffer(a) : a \in Amounts}
    \cup {ExecuteBuffer(a) \o <<7, 7>> : a \in Amounts}
    \cup {<<>>,
          <<105, 37, 101>>,
          ExecuteDiscriminator,
          ExecuteDiscriminator \o <<1, 0, 0>>,
          InitializeListDiscriminator \o Zeros(4),
          UpdateListDiscriminator \o Zeros(4),
          UnknownDiscriminator \o ToLeBytes(1, AmountLen)}

\* TransferHookInstruction::unpack: the opcode is the first 8 bytes; Execute
\* carries a u64 LE amount in the next 8 (anything after it is ignored); the
\* two other opcodes of the interface decode to their own variants; every
\* other buffer is InvalidInstructionData.
Unpack(data) ==
    IF Len(data) < DiscLen
    THEN [ok |-> FALSE, tag |-> "none", amount |-> 0]
    ELSE LET disc == SubSeq(data, 1, DiscLen)
             rest == SubSeq(data, DiscLen + 1, Len(data))
         IN  CASE disc = ExecuteDiscriminator ->
                    IF Len(rest) < AmountLen
                    THEN [ok |-> FALSE, tag |-> "none", amount |-> 0]
                    ELSE [ok |-> TRUE, tag |-> "Execute",
                          amount |-> FromLeBytes(SubSeq(rest, 1, AmountLen))]
               [] disc = InitializeListDiscriminator ->
                    [ok |-> TRUE, tag |-> "InitializeExtraAccountMetaList",
                     amount |-> 0]
               [] disc = UpdateListDiscriminator ->
                    [ok |-> TRUE, tag |-> "UpdateExtraAccountMetaList",
                     amount |-> 0]
               [] OTHER -> [ok |-> FALSE, tag |-> "none", amount |-> 0]

\* The buffers that encode Execute, and the amount they carry.
EncodesExecute(data) == Unpack(data).ok /\ Unpack(data).tag = "Execute"

(***************************************************************************)
(* Account-meta codec (ExtraAccountMetaList under the Execute              *)
(* discriminator): discriminator, u32 LE length of the value, then the     *)
(* value: u32 LE entry count and one fixed-width record per entry.         *)
(***************************************************************************)
LengthLen == 4
EntryLen == 1 + PUBKEY_BYTES + 1 + 1

\* ExtraAccountMeta { discriminator, address_config, is_signer, is_writable }
ExtraAccountMeta(d, cfg, s, w) ==
    [discriminator |-> d, address_config |-> cfg, is_signer |-> s,
     is_writable |-> w]

\* PodBool::from
PodBool(b) == IF b THEN 1 ELSE 0

\* An entry encoder that writes the two flags in the other order.
EncodeMetaFlagsSwapped(m) ==
    <<m.discriminator>> \o m.address_config
        \o <<PodBool(m.is_writable), PodBool(m.is_signer)>>

EncodeMeta(m) ==
    <<m.discriminator>> \o m.address_config
        \o <<PodBool(m.is_signer), PodBool(m.is_writable)>>

DecodeMeta(b) ==
    ExtraAccountMeta(b[1], SubSeq(b, 2, 1 + PUBKEY_BYTES),
                     b[2 + PUBKEY_BYTES] # 0, b[3 + PUBKEY_BYTES] # 0)

RECURSIVE EncodeMetas(_)
EncodeMetas(ms) ==
    IF Len(ms) = 0 THEN <<>> ELSE EncodeMeta(Head(ms)) \o EncodeMetas(Tail(ms))

\* ExtraAccountMetaList::size_of(n)
SizeOf(n) == DiscLen + LengthLen + LengthLen + n * EntryLen

\* ExtraAccountMetaList::init::<ExecuteInstruction>(data, metas): allocate the
\* first free TLV entry of the zeroed buffer and push the entries into it.
ListInit(data, ms) ==
    LET value == ToLeBytes(Len(ms), LengthLen) \o EncodeMetas(ms)
        tlv == ExecuteDiscriminator \o ToLeBytes(Len(value), LengthLen) \o value
    IN  IF Len(data) < Len(tlv) \/ data # Zeros(Len(data))
        THEN [ok |-> FALSE, bytes |-> data]
        ELSE [ok |-> TRUE,
              bytes |-> tlv \o SubSeq(data, Len(tlv) + 1, Len(data))]

\* Reading the list back: find the Execute entry, then its PodSlice.
ListDecode(data) ==
    LET bad == [ok |-> FALSE, metas |-> <<>>]
    IN  IF Len(data) < DiscLen + LengthLen
           \/ SubSeq(data, 1, DiscLen) # ExecuteDiscriminator
        THEN bad
        ELSE LET len == FromLeBytes(SubSeq(data, DiscLen + 1, DiscLen + LengthLen))
                 from == DiscLen + LengthLen
             IN  IF len < LengthLen \/ Len(data) < from + len
                 THEN bad
                 ELSE LET n == FromLeBytes(SubSeq(data, from + 1, from + LengthLen))
                          at(i) == from + LengthLen + (i - 1) * EntryLen
                      IN  IF LengthLen + n * EntryLen > len
                          THEN bad
                          ELSE [ok |-> TRUE,
                                metas |->
                                  [i \in 1..n |->
                                     DecodeMeta(SubSeq(data, at(i) + 1,
                                                       at(i) + EntryLen))]]

\* A slot that holds list bytes, owned by `p`.
BytesSlot(p, b) ==
    [prog |-> p, kind |-> "bytes", owner |-> NoKey, count |-> 0, bytes |-> b]

(***************************************************************************)
(* The program                                                             *)
(***************************************************************************)
Fail(e, sl) == [result |-> e, slots |-> sl, hook |-> NoHook]

\* An entry point that takes token accounts returns an error before it has
\* borrowed any of them.
FailHook(e, sl, tk) ==
    [result |-> e, slots |-> sl, hook |-> NoHook, tok |-> tk]

\* The counter handle as an unchecked account: anything passes.
LoadCounterUnchecked(sl, h) == "Ok"

\* Account<'info, Counter>: the handle must name a slot of this program that
\* holds a Counter record.
LoadCounter(sl, h) ==
    IF h \notin Slots THEN "AccountNotInitialized"
    ELSE IF sl[h].prog = SystemProgramId /\ sl[h].kind = "empty"
         THEN "AccountNotInitialized"
    ELSE IF sl[h].prog # ProgramId THEN "AccountOwnedByWrongProgram"
    ELSE IF sl[h].kind # "counter" THEN "AccountDiscriminatorMismatch"
    ELSE "Ok"

\* The write-back on exit: the in-memory record of an account declared `mut`
\* (or `init`) is serialized into its slot; any other account keeps the bytes
\* it had.
Exit(sl, h, mem, isMut) == IF isMut THEN [sl EXCEPT ![h] = mem] ELSE sl

\* fn check_token_account_is_transferring(account_data)
check_token_account_is_transferring(account_data) ==
    IF account_data.form = "garbage" THEN "InvalidAccountData"
    ELSE IF account_data.form = "noext" THEN "ExtensionNotFound"
    ELSE IF account_data.transferring THEN "Ok"
    ELSE "ProgramCalledOutsideOfTransfer"

\* Initialize.counter is #[account(init, ...)]: created and written on exit.
InitializeCounterMut == TRUE

\* TransferHook.counter declared #[account(mut)].
TransferHookCounterMutDeclared == TRUE

\* TransferHook.counter is declared without `mut`.
TransferHookCounterMut == FALSE

\* InitializeExtraAccountMetaList.counter is #[account(mut)].
InitializeExtraCounterMut == TRUE

\* The init constraint as `init_if_needed`: an occupied slot is reused.
InitConstraintIfNeeded(sl, accs) ==
    IF accs.counter # CounterPda(accs.authority) THEN "ConstraintSeeds"
    ELSE "Ok"

\* #[account(init, seeds = [authority.key()], bump, payer = authority)]: the
\* handle must be the derived slot, and the allocator creates it only if
\* nobody has.
InitConstraint(sl, accs) ==
    IF accs.counter # CounterPda(accs.authority) THEN "ConstraintSeeds"
    ELSE IF sl[accs.counter] # EmptySlot THEN "AlreadyInitialized"
    ELSE "Ok"

\* initialize with `count = 1` in place of `count = 0`.
InitializeBodyFromOne(accs) == CounterRecord(accs.authority, 1)

\* initialize without `counter.owner = authority.key()`.
InitializeBodyNoOwner(accs) == CounterRecord(NoKey, 0)

\* The body of initialize: the record it leaves in memory.
InitializeBody(accs) == CounterRecord(accs.authority, 0)

\* pub fn initialize(ctx: Context<Initialize>) with its account validation
\* (authority: Signer) and exit.
initialize(sl, accs, signed) ==
    IF ~signed THEN Fail("AccountNotSigner", sl)
    ELSE IF InitConstraint(sl, accs) # "Ok"
         THEN Fail(InitConstraint(sl, accs), sl)
    ELSE [result |-> "Ok",
          slots |-> Exit(sl, accs.counter, InitializeBody(accs),
                         InitializeCounterMut),
          hook |-> NoHook]

\* counter.count += 1 on an unsigned integer of CountBits bits.  At the
\* largest value a build without overflow checks wraps to 0; a build with
\* overflow checks panics, which fails the unit like any other error and
\* leaves the store as it was.
Increment(c) == (c + 1) % (2 ^ CountBits)

\* The body of transfer_hook with a limit on the amount.
TransferHookBodyLimited(mem, tk, accs, amount) ==
    LET counter == [mem EXCEPT !.count = Increment(mem.count)]
        src == check_token_account_is_transferring(tk[accs.source])
        dst == check_token_account_is_transferring(tk[accs.destination])
    IN  IF src # "Ok" THEN [result |-> src, counter |-> counter]
        ELSE IF dst # "Ok" THEN [result |-> dst, counter |-> counter]
        ELSE IF amount > 1000
             THEN [result |-> "AmountTooLarge", counter |-> counter]
        ELSE [result |-> "Ok", counter |-> counter]

\* The body of transfer_hook on the in-memory Counter `mem`: the result and
\* the record it leaves in memory.
TransferHookBody(mem, tk, accs, amount) ==
    LET counter == [mem EXCEPT !.count = Increment(mem.count)]
        src == check_token_account_is_transferring(tk[accs.source])
        dst == check_token_account_is_transferring(tk[accs.destination])
    IN  IF src # "Ok" THEN [result |-> src, counter |-> counter]
        ELSE IF dst # "Ok" THEN [result |-> dst, counter |-> counter]
        ELSE [result |-> "Ok", counter |-> counter]

\* The extra-accounts handle without the seeds constraint.
ExtraSeedsUnconstrained(accs) == "Ok"

\* #[account(seeds = [b"extra-account-metas", mint.key()], bump)]
ExtraSeedsConstraint(accs) ==
    IF accs.extra_account = ExtraPda(accs.mint) THEN "Ok" ELSE "ConstraintSeeds"

\* transfer_hook whose increment survives a failing flag check.
transfer_hook_KeepsIncrement(sl, tk, accs, ix_data) ==
    IF Len(ix_data) < AmountLen \/ LoadCounter(sl, accs.counter) # "Ok"
       \/ ExtraSeedsConstraint(accs) # "Ok"
    THEN [result |-> "ConstraintSeeds", slots |-> sl,
          hook |-> HookSeen(1, accs, FALSE, 0, 0), tok |-> tk]
    ELSE LET amount == FromLeBytes(SubSeq(ix_data, 1, AmountLen))
             body == TransferHookBody(sl[accs.counter], tk, accs, amount)
         IN  [result |-> body.result,
              slots |-> [sl EXCEPT ![accs.counter] = body.counter],
              hook |-> HookSeen(1, accs, TRUE, amount, body.counter.count),
              tok |-> tk]

\* transfer_hook that clears the transferring flag of the source once both
\* checks have passed.
transfer_hook_ConsumesFlag(sl, tk, accs, ix_data) ==
    LET rejected(e) ==
            [result |-> e, slots |-> sl,
             hook |-> HookSeen(1, accs, FALSE, 0, 0), tok |-> tk]
    IN  IF Len(ix_data) < AmountLen
        THEN rejected("InstructionDidNotDeserialize")
        ELSE IF LoadCounter(sl, accs.counter) # "Ok"
             THEN rejected(LoadCounter(sl, accs.counter))
        ELSE IF ExtraSeedsConstraint(accs) # "Ok"
             THEN rejected(ExtraSeedsConstraint(accs))
        ELSE LET amount == FromLeBytes(SubSeq(ix_data, 1, AmountLen))
                 body == TransferHookBody(sl[accs.counter], tk, accs, amount)
                 seen == HookSeen(1, accs, TRUE, amount, body.counter.count)
             IN  IF body.result # "Ok"
                 THEN [result |-> body.result, slots |-> sl, hook |-> seen,
                       tok |-> tk]
                 ELSE [result |-> "Ok",
                       slots |-> Exit(sl, accs.counter, body.counter,
                                      TransferHookCounterMut),
                       hook |-> seen,
                       tok |-> [tk EXCEPT ![accs.source].transferring = FALSE]]

\* transfer_hook whose in-memory Counter is committed even when a flag check
\* fails.
transfer_hook_CommitsOnFailure(sl, tk, accs, ix_data) ==
    LET rejected(e) ==
            [result |-> e, slots |-> sl,
             hook |-> HookSeen(1, accs, FALSE, 0, 0), tok |-> tk]
    IN  IF Len(ix_data) < AmountLen
        THEN rejected("InstructionDidNotDeserialize")
        ELSE IF LoadCounter(sl, accs.counter) # "Ok"
             THEN rejected(LoadCounter(sl, accs.counter))
        ELSE IF ExtraSeedsConstraint(accs) # "Ok"
             THEN rejected(ExtraSeedsConstraint(accs))
        ELSE LET amount == FromLeBytes(SubSeq(ix_data, 1, AmountLen))
                 body == TransferHookBody(sl[accs.counter], tk, accs, amount)
                 seen == HookSeen(1, accs, TRUE, amount, body.counter.count)
             IN  IF body.result # "Ok"
                 THEN [result |-> body.result,
                       slots |-> [sl EXCEPT ![accs.counter] = body.counter],
                       hook |-> seen, tok |-> tk]
                 ELSE [result |-> "Ok",
                       slots |-> Exit(sl, accs.counter, body.counter,
                                      TransferHookCounterMut),
                       hook |-> seen, tok |-> tk]

\* pub fn transfer_hook(ctx: Context<TransferHook>, amount) as the program
\* runs it: the argument is deserialized from `ix_data`, the accounts are
\* validated, the body runs, and exit writes back what is `mut`.  A failure
\* at any step discards the in-memory record.  The token accounts are only
\* borrowed for reading (try_borrow_data), so `tok` comes back as it went in.
transfer_hook(sl, tk, accs, ix_data) ==
    LET rejected(e) ==
            [result |-> e, slots |-> sl,
             hook |-> HookSeen(1, accs, FALSE, 0, 0), tok |-> tk]
    IN  IF Len(ix_data) < AmountLen
        THEN rejected("InstructionDidNotDeserialize")
        ELSE IF LoadCounter(sl, accs.counter) # "Ok"
             THEN rejected(LoadCounter(sl, accs.counter))
        ELSE IF ExtraSeedsConstraint(accs) # "Ok"
             THEN rejected(ExtraSeedsConstraint(accs))
        ELSE LET amount == FromLeBytes(SubSeq(ix_data, 1, AmountLen))
                 body == TransferHookBody(sl[accs.counter], tk, accs, amount)
                 seen == HookSeen(1, accs, TRUE, amount, body.counter.count)
             IN  IF body.result # "Ok"
                 THEN [result |-> body.result, slots |-> sl, hook |-> seen,
                       tok |-> tk]
                 ELSE [result |-> "Ok",
                       slots |-> Exit(sl, accs.counter, body.counter,
                                      TransferHookCounterMut),
                       hook |-> seen, tok |-> tk]

\* fallback that forwards every instruction it could unpack.
fallback_ForwardsAll(sl, tk, accs, data) ==
    LET instruction == Unpack(data)
    IN  IF ~instruction.ok THEN FailHook("InvalidInstructionData", sl, tk)
        ELSE transfer_hook(sl, tk, accs,
                           ToLeBytes(instruction.amount, AmountLen))

\* fallback that re-encodes the amount as a 32-bit integer.
fallback_ShortAmount(sl, tk, accs, data) ==
    LET instruction == Unpack(data)
    IN  IF ~instruction.ok THEN FailHook("InvalidInstructionData", sl, tk)
        ELSE IF instruction.tag = "Execute"
             THEN transfer_hook(sl, tk, accs,
                                ToLeBytes(instruction.amount, LengthLen))
        ELSE FailHook("InvalidInstructionData", sl, tk)

\* pub fn fallback(program_id, accounts, data)
fallback(sl, tk, accs, data) ==
    LET instruction == Unpack(data)
    IN  IF ~instruction.ok THEN FailHook("InvalidInstructionData", sl, tk)
        ELSE IF instruction.tag = "Execute"
             THEN transfer_hook(sl, tk, accs,
                                ToLeBytes(instruction.amount, AmountLen))
        ELSE FailHook("InvalidInstructionData", sl, tk)

\* The list with the writable flag left off.
AccountMetasReadOnly(accs) ==
    <<ExtraAccountMeta(0, KeyToBytes(accs.counter), FALSE, FALSE)>>

\* The list initialize_extra_account_meta_list builds.
AccountMetas(accs) ==
    <<ExtraAccountMeta(0, KeyToBytes(accs.counter), FALSE, TRUE)>>

\* allocate that does not look at what the slot holds.
AllocateAnyway(sl, h, signer, size) ==
    IF h # signer THEN [ok |-> FALSE, err |-> "MissingRequiredSignature", slots |-> sl]
    ELSE [ok |-> TRUE, err |-> "Ok",
          slots |-> [sl EXCEPT ![h] = BytesSlot(SystemProgramId, Zeros(size))]]

\* system_instruction::allocate under invoke_signed: the slot must be signed
\* for by the seeds, hold no data and belong to the system program.
Allocate(sl, h, signer, size) ==
    IF h # signer THEN [ok |-> FALSE, err |-> "MissingRequiredSignature", slots |-> sl]
    ELSE IF sl[h] # EmptySlot
         THEN [ok |-> FALSE, err |-> "AlreadyInitialized", slots |-> sl]
    ELSE [ok |-> TRUE, err |-> "Ok",
          slots |-> [sl EXCEPT ![h] = BytesSlot(SystemProgramId, Zeros(size))]]

\* system_instruction::assign under invoke_signed.
Assign(sl, h, signer, p) ==
    IF h # signer THEN [ok |-> FALSE, err |-> "MissingRequiredSignature", slots |-> sl]
    ELSE IF sl[h].prog # SystemProgramId
         THEN [ok |-> FALSE, err |-> "AlreadyInitialized", slots |-> sl]
    ELSE [ok |-> TRUE, err |-> "Ok", slots |-> [sl EXCEPT ![h].prog = p]]

\* initialize_extra_account_meta_list that also sets counter.owner to the
\* authority passed.
initialize_extra_account_meta_list_TakesCounter(sl, accs, bump_seed) ==
    IF LoadCounter(sl, accs.counter) # "Ok"
    THEN Fail(LoadCounter(sl, accs.counter), sl)
    ELSE IF ExtraSeedsConstraint(accs) # "Ok"
         THEN Fail(ExtraSeedsConstraint(accs), sl)
    ELSE LET account_metas == AccountMetas(accs)
             signer == SignerSeedsAddress(accs.mint, bump_seed)
             account_size == SizeOf(Len(account_metas))
             a1 == Allocate(sl, accs.extra_account, signer, account_size)
             a2 == Assign(a1.slots, accs.extra_account, signer, ProgramId)
             w == ListInit(a2.slots[accs.extra_account].bytes, account_metas)
             written == [a2.slots EXCEPT ![accs.extra_account].bytes = w.bytes]
         IN  IF ~a1.ok THEN Fail(a1.err, sl)
             ELSE IF ~a2.ok THEN Fail(a2.err, sl)
             ELSE IF ~w.ok THEN Fail("InvalidAccountData", sl)
             ELSE [result |-> "Ok",
                   slots |-> Exit(written, accs.counter,
                                  [written[accs.counter]
                                     EXCEPT !.owner = accs.authority],
                                  InitializeExtraCounterMut),
                   hook |-> NoHook]

\* initialize_extra_account_meta_list without the assign step.
initialize_extra_account_meta_list_NoAssign(sl, accs, bump_seed) ==
    IF LoadCounter(sl, accs.counter) # "Ok"
    THEN Fail(LoadCounter(sl, accs.counter), sl)
    ELSE IF ExtraSeedsConstraint(accs) # "Ok"
         THEN Fail(ExtraSeedsConstraint(accs), sl)
    ELSE LET account_metas == AccountMetas(accs)
             signer == SignerSeedsAddress(accs.mint, bump_seed)
             account_size == SizeOf(Len(account_metas))
             a1 == Allocate(sl, accs.extra_account, signer, account_size)
             w == ListInit(a1.slots[accs.extra_account].bytes, account_metas)
             written == [a1.slots EXCEPT ![accs.extra_account].bytes = w.bytes]
         IN  IF ~a1.ok THEN Fail(a1.err, sl)
             ELSE IF ~w.ok THEN Fail("InvalidAccountData", sl)
             ELSE [result |-> "Ok",
                   slots |-> Exit(written, accs.counter, written[accs.counter],
                                  InitializeExtraCounterMut),
                   hook |-> NoHook]

\* pub fn initialize_extra_account_meta_list(ctx, bump_seed) with its account
\* validation and exit.
initialize_extra_account_meta_list(sl, accs, bump_seed) ==
    IF LoadCounter(sl, accs.counter) # "Ok"
    THEN Fail(LoadCounter(sl, accs.counter), sl)
    ELSE IF ExtraSeedsConstraint(accs) # "Ok"
         THEN Fail(ExtraSeedsConstraint(accs), sl)
    ELSE LET account_metas == AccountMetas(accs)
             signer == SignerSeedsAddress(accs.mint, bump_seed)
             account_size == SizeOf(Len(account_metas))
             a1 == Allocate(sl, accs.extra_account, signer, account_size)
             a2 == Assign(a1.slots, accs.extra_account, signer, ProgramId)
             w == ListInit(a2.slots[accs.extra_account].bytes, account_metas)
             written == [a2.slots EXCEPT ![accs.extra_account].bytes = w.bytes]
         IN  IF ~a1.ok THEN Fail(a1.err, sl)
             ELSE IF ~a2.ok THEN Fail(a2.err, sl)
             ELSE IF ~w.ok THEN Fail("InvalidAccountData", sl)
             ELSE [result |-> "Ok",
                   slots |-> Exit(written, accs.counter, written[accs.counter],
                                  InitializeExtraCounterMut),
                   hook |-> NoHook]

(***************************************************************************)
(* Units of work                                                           *)
(***************************************************************************)
\* The record of a unit of work: `ctx` tells whether the host runtime issued
\* it inside a transfer or somebody sent it directly; `tok` is the token
\* account state the program saw, `pre` the slots before it.
Unit(op, ctx, accs, signed, arg, data, out, tk) ==
    [op |-> op, ctx |-> ctx, accs |-> accs, signed |-> signed, arg |-> arg,
     data |-> data, result |-> out.result, hook |-> out.hook, pre |-> slots,
     tok |-> tk]

\* The (source, destination) pairs a direct caller passes.
HookPairs ==
    {<<"T1", "T2">>, <<"F1", "F1">>, <<"F1", "T2">>, <<"T1", "F1">>}

\* The handles a caller of the hook passes: every pair with the slot derived
\* from the mint and a Counter slot; and, for one pair, an extra-accounts slot
\* that is not the one derived from the mint, and a counter handle that names
\* a slot of another kind.
HookAccounts ==
    {Accs(p[1], m, p[2], "A1", ExtraPda(m), c) :
        p \in HookPairs, m \in Mints, c \in CounterSlots}
    \cup {Accs("F1", "M1", "F1", "A1", "E2", "C1"),
          Accs("F1", "M1", "F1", "A1", "E1", "E1")}

\* The buffers sent to fallback: Execute with every handle list, every buffer
\* with two handle lists.
FallbackInputs ==
    {<<accs, ExecuteBuffer(a)>> : accs \in HookAccounts, a \in Amounts}
    \cup {<<accs, data>> :
            accs \in {Accs("F1", "M1", "F1", "A1", "E1", "C1"),
                      Accs("T1", "M1", "T2", "A1", "E1", "C1")},
            data \in InstructionBuffers}

\* The handles a caller of initialize_extra_account_meta_list passes.
InitializeExtraAccounts ==
    {Accs(NoKey, m, NoKey, "A1", ExtraPda(m), c) :
        m \in Mints, c \in CounterSlots}
    \cup {Accs(NoKey, "M1", NoKey, "A2", "E2", "C1"),
          Accs(NoKey, "M1", NoKey, "A2", "E1", "E2")}

\* The counter handles a caller of initialize passes.
InitializeCounterHandles == CounterSlots \cup {"E1"}

Init ==
    /\ slots = [h \in Slots |-> EmptySlot]
    /\ tok = [t \in TokenAccounts |->
                IF t = "F1" THEN TokenData(OtherProgramId, "garbage", FALSE)
                ELSE TokenData(Token2022Id, "ext", FALSE)]
    /\ last = [op |-> "none", ctx |-> "direct", accs |-> NoAccs,
               signed |-> FALSE, arg |-> 0, data |-> <<>>, result |-> "Ok",
               hook |-> NoHook, pre |-> [h \in Slots |-> EmptySlot],
               tok |-> tok]

\* The initialize instruction.
Initialize(a, c, signed) ==
    LET accs == Accs(NoKey, NoKey, NoKey, a, NoKey, c)
        out == initialize(slots, accs, signed)
    IN  /\ slots' = out.slots
        /\ last' = Unit("initialize", "direct", accs, signed, 0, <<>>, out, tok)
        /\ UNCHANGED tok

\* The initialize_extra_account_meta_list instruction.
InitializeExtraAccountMetaList(accs, bump_seed) ==
    LET out == initialize_extra_account_meta_list(slots, accs, bump_seed)
    IN  /\ slots' = out.slots
        /\ last' = Unit("initialize_extra_account_meta_list", "direct", accs,
                        FALSE, bump_seed, <<>>, out, tok)
        /\ UNCHANGED tok

\* The transfer_hook instruction sent directly, outside any transfer.
TransferHook(accs, amount) ==
    LET out == transfer_hook(slots, tok, accs, ToLeBytes(amount, AmountLen))
    IN  /\ slots' = out.slots
        /\ last' = Unit("transfer_hook", "direct", accs, FALSE, amount, <<>>,
                        out, tok)
        /\ tok' = out.tok

\* An instruction buffer sent directly to the fallback entry point.
Fallback(accs, data) ==
    LET out == fallback(slots, tok, accs, data)
    IN  /\ slots' = out.slots
        /\ last' = Unit("fallback", "direct", accs, FALSE, 0, data, out, tok)
        /\ tok' = out.tok

\* A transfer of the asset program between two of its accounts: it raises the
\* transferring flag of both, resolves the extra accounts from the list stored
\* for the mint, sends Execute to the fallback entry point, and clears the
\* flags.  The transfer commits only if the hook succeeds.
HostTransfer(src, dst, m, amount) ==
    LET list == ListDecode(slots[ExtraPda(m)].bytes)
        counter == KeyFromBytes(list.metas[1].address_config)
        accs == Accs(src, m, dst, "A1", ExtraPda(m), counter)
        during == [tok EXCEPT ![src].transferring = TRUE,
                              ![dst].transferring = TRUE]
        out == fallback(slots, during, accs, ExecuteBuffer(amount))
    IN  /\ src # dst
        /\ tok[src].prog = Token2022Id /\ tok[dst].prog = Token2022Id
        /\ slots[ExtraPda(m)].prog = ProgramId
        /\ list.ok /\ Len(list.metas) = 1
        /\ slots' = out.slots
        /\ last' = Unit("fallback", "host", accs, FALSE, amount,
                        ExecuteBuffer(amount), out, during)
        /\ tok' = IF out.result = "Ok"
                  THEN [out.tok EXCEPT ![src].transferring = FALSE,
                                       ![dst].transferring = FALSE]
                  ELSE tok

\* The owner of an account outside the asset program writes its bytes.
Forge(f, d) ==
    /\ tok[f].prog = OtherProgramId
    /\ tok' = [tok EXCEPT ![f] = d]
    /\ last' = [op |-> "forge", ctx |-> "direct", accs |-> NoAccs,
                signed |-> FALSE, arg |-> 0, data |-> <<>>, result |-> "Ok",
                hook |-> NoHook, pre |-> slots, tok |-> tok']
    /\ UNCHANGED slots

Next ==
    \/ \E a \in Authorities, c \in InitializeCounterHandles, signed \in BOOLEAN :
          Initialize(a, c, signed)
    \/ \E accs \in InitializeExtraAccounts, b \in Bumps :
          InitializeExtraAccountMetaList(accs, b)
    \/ \E accs \in HookAccounts, amount \in Amounts : TransferHook(accs, amount)
    \/ \E in \in FallbackInputs : Fallback(in[1], in[2])
    \/ \E src \in TokenAccounts, dst \in TokenAccounts, m \in Mints,
          amount \in Amounts : HostTransfer(src, dst, m, amount)
    \/ \E f \in TokenAccounts, d \in ForgedData : Forge(f, d)

Spec == Init /\ [][Next]_vars

(***************************************************************************)
(* Properties                                                              *)
(***************************************************************************)
IsHookUnit == last.op \in {"transfer_hook", "fallback"}

\* The flag of a token account as the program saw it in the last unit.
FlagTrue(t) == last.tok[t].form = "ext" /\ last.tok[t].transferring
FlagFalse(t) == last.tok[t].form = "ext" /\ ~last.tok[t].transferring

\* C1: whenever the body of transfer_hook ran on accounts whose source and
\* destination both have transferring = true, the unit succeeded and the
\* count stored in the Counter slot is one more than before the unit.
C1_StoredCountIncreases ==
    (IsHookUnit /\ last.hook.ran
        /\ FlagTrue(last.accs.source) /\ FlagTrue(last.accs.destination))
    => /\ last.result = "Ok"
       /\ slots[last.accs.counter].count
            = last.pre[last.accs.counter].count + 1

\* C2: a hook unit that nobody but a direct caller issued (no transfer of the
\* host runtime around it) fails and leaves every slot as it was.
C2_DirectCallFails ==
    (IsHookUnit /\ last.ctx = "direct")
    => (last.result # "Ok" /\ slots = last.pre)

\* C3: whenever the body of transfer_hook ran and the source flag is false, or
\* the source flag is true and the destination flag is false, the unit failed
\* with ProgramCalledOutsideOfTransfer and every slot (count and owner of the
\* Counter included) is as before the unit, although the body had raised the
\* in-memory count before checking.
C3_FlagFalseFailsAndRollsBack ==
    (IsHookUnit /\ last.hook.ran
        /\ (FlagFalse(last.accs.source)
            \/ (FlagTrue(last.accs.source) /\ FlagFalse(last.accs.destination))))
    => /\ last.result = "ProgramCalledOutsideOfTransfer"
       /\ last.hook.count = last.pre[last.accs.counter].count + 1
       /\ slots = last.pre

C3_Witness ==
    /\ last.op = "transfer_hook" /\ last.hook.ran
    /\ FlagTrue(last.accs.source) /\ FlagFalse(last.accs.destination)
    /\ last.result = "ProgramCalledOutsideOfTransfer"
    /\ last.pre[last.accs.counter].kind = "counter"

\* The last unit is initialize(A), signed by A, on the slot derived from A.
IsInitializeOf(a) ==
    /\ last.op = "initialize" /\ last.signed
    /\ last.accs.authority = a /\ last.accs.counter = CounterPda(a)

\* C4: initialize(A) on an unoccupied derived slot succeeds and the slot then
\* reads {owner: A, count: 0}.
C4_InitializeCreatesCounter ==
    \A a \in Authorities :
        (IsInitializeOf(a) /\ last.pre[CounterPda(a)] = EmptySlot)
        => /\ last.result = "Ok"
           /\ slots[CounterPda(a)].prog = ProgramId
           /\ slots[CounterPda(a)].kind = "counter"
           /\ slots[CounterPda(a)].owner = a
           /\ slots[CounterPda(a)].count = 0

C4_Witness ==
    /\ IsInitializeOf("A2") /\ last.pre["C2"] = EmptySlot
    /\ last.result = "Ok" /\ slots["C2"].owner = "A2"

\* C5: initialize(A) on an occupied derived slot fails with AlreadyInitialized
\* and leaves every slot, the Counter's owner and count included, as it was.
C5_InitializeOnce ==
    \A a \in Authorities :
        (IsInitializeOf(a) /\ last.pre[CounterPda(a)] # EmptySlot)
        => (last.result = "AlreadyInitialized" /\ slots = last.pre)

C5_Witness ==
    /\ IsInitializeOf("A1") /\ last.pre["C1"].kind = "counter"
    /\ last.result = "AlreadyInitialized"
    /\ slots["C1"] = CounterRecord("A1", 0)

DirectOutcome(a) ==
    transfer_hook(last.pre, last.tok, last.accs, ToLeBytes(a, AmountLen))

\* C7: fallback on a buffer that encodes Execute with amount a enters
\* transfer_hook exactly once, with the handles it was given; if the body
\* runs, it receives a; and the result and the slots afterwards are those of
\* the transfer_hook instruction with amount a on the same handles.
C7_RouterForwardsExecute ==
    (last.op = "fallback" /\ EncodesExecute(last.data))
    => LET a == Unpack(last.data).amount
       IN  /\ last.hook.calls = 1
           /\ last.hook.accs = last.accs
           /\ last.hook.ran => last.hook.amount = a
           /\ last.hook = DirectOutcome(a).hook
           /\ last.result = DirectOutcome(a).result
           /\ slots = DirectOutcome(a).slots

C7_Witness ==
    /\ last.op = "fallback" /\ last.ctx = "direct"
    /\ last.data = ExecuteBuffer(1000000) \o <<7, 7>>
    /\ last.hook.ran /\ last.hook.amount = 1000000
    /\ last.result = "Ok"

\* C8: the result and the slots after a transfer_hook unit are those the
\* same unit has with any other amount.
C8_AmountIsInformational ==
    last.op = "transfer_hook"
    => \A a2 \in Amounts :
         /\ last.result = DirectOutcome(a2).result
         /\ slots = DirectOutcome(a2).slots

C8_Witness ==
    /\ last.op = "transfer_hook" /\ last.arg = 1000000
    /\ last.hook.ran /\ last.hook.amount = 1000000
    /\ last.result = "Ok"

\* The last unit is initialize_extra_account_meta_list for mint m with the
\* slot derived from m, the canonical bump and an initialized Counter.
IsInitializeExtraOf(m) ==
    /\ last.op = "initialize_extra_account_meta_list"
    /\ last.accs.mint = m /\ last.accs.extra_account = ExtraPda(m)
    /\ last.arg = CanonicalBump(m)
    /\ LoadCounter(last.pre, last.accs.counter) = "Ok"

\* C9: initialize_extra_account_meta_list with the correct bump on an
\* unassigned slot succeeds and leaves, at the slot derived from the mint, a
\* slot of this program that decodes to one entry: the address of the Counter
\* passed, not a signer, writable.
C9_ExtraListWritten ==
    \A m \in Mints :
        (IsInitializeExtraOf(m) /\ last.pre[ExtraPda(m)] = EmptySlot)
        => LET list == ListDecode(slots[ExtraPda(m)].bytes)
           IN  /\ last.result = "Ok"
               /\ slots[ExtraPda(m)].prog = ProgramId
               /\ list.ok /\ Len(list.metas) = 1
               /\ list.metas[1].discriminator = 0
               /\ list.metas[1].address_config = KeyToBytes(last.accs.counter)
               /\ ~list.metas[1].is_signer
               /\ list.metas[1].is_writable

C9_Witness ==
    /\ IsInitializeExtraOf("M2") /\ last.pre["E2"] = EmptySlot
    /\ last.accs.counter = "C2" /\ last.result = "Ok"
    /\ KeyFromBytes(ListDecode(slots["E2"].bytes).metas[1].address_config) = "C2"

\* C10: an initialize_extra_account_meta_list for a mint whose slot is already
\* assigned fails, and no unit changes an assigned extra-accounts slot.
C10_ExtraListImmutable ==
    /\ \A e \in ExtraSlots : last.pre[e] # EmptySlot => slots[e] = last.pre[e]
    /\ (last.op = "initialize_extra_account_meta_list"
          /\ last.accs.mint \in Mints
          /\ last.pre[ExtraPda(last.accs.mint)] # EmptySlot)
       => last.result # "Ok"

C10_Witness ==
    /\ IsInitializeExtraOf("M1") /\ last.pre["E1"] # EmptySlot
    /\ KeyFromBytes(ListDecode(last.pre["E1"].bytes).metas[1].address_config)
         # last.accs.counter
    /\ last.result = "AlreadyInitialized"
    /\ slots["E1"] = last.pre["E1"]

(***************************************************************************)
(* The account-meta codec on its own: a list is drawn, written into a      *)
(* zeroed buffer with ExtraAccountMetaList::init, and read back.           *)
(***************************************************************************)
\* The entries a list is built from: literal addresses (discriminator 0) and
\* seed configurations (discriminator 1), every combination of the flags.
CodecMetas ==
    {ExtraAccountMeta(d, KeyToBytes(k), sg, w) :
        d \in {0, 1}, k \in CounterSlots, sg \in BOOLEAN, w \in BOOLEAN}

CodecLists == UNION {[1..n -> CodecMetas] : n \in 0..MaxMetas}

\* Spare bytes of the buffer beyond size_of(n).
CodecPads == {0, 3}

CodecInit ==
    /\ slots = [h \in Slots |-> EmptySlot]
    /\ tok = [t \in TokenAccounts |->
                IF t = "F1" THEN TokenData(OtherProgramId, "garbage", FALSE)
                ELSE TokenData(Token2022Id, "ext", FALSE)]
    /\ \E ms \in CodecLists :
          last = [op |-> "list", list |-> ms,
                  decoded |-> [ok |-> FALSE, metas |-> <<>>]]

\* ExtraAccountMetaList::init on a zeroed buffer of size_of(n) + pad bytes.
CodecEncode(pad) ==
    LET written == ListInit(Zeros(SizeOf(Len(last.list)) + pad), last.list)
    IN  /\ last.op = "list"
        /\ slots' = [slots EXCEPT !["E1"] = BytesSlot(ProgramId, written.bytes)]
        /\ last' = [last EXCEPT !.op = IF written.ok THEN "encoded"
                                       ELSE "failed"]
        /\ UNCHANGED tok

\* A caller reads the list back from the bytes of the slot.
CodecDecode ==
    /\ last.op = "encoded"
    /\ last' = [last EXCEPT !.op = "decoded",
                            !.decoded = ListDecode(slots["E1"].bytes)]
    /\ UNCHANGED <<slots, tok>>

CodecNext ==
    \/ \E pad \in CodecPads : CodecEncode(pad)
    \/ CodecDecode

SpecCodec == CodecInit /\ [][CodecNext]_vars

\* C11: decoding what ExtraAccountMetaList::init wrote gives back the list
\* that was written: the same entries in the same order, each with the same
\* discriminator, address_config, is_signer and is_writable; writing into a
\* zeroed buffer of at least size_of(n) bytes never fails.  This covers the
\* one-entry list initialize_extra_account_meta_list writes.
C11_CodecRoundTrip ==
    /\ last.op # "failed"
    /\ last.op = "decoded" =>
          /\ last.decoded.ok
          /\ last.decoded.metas = last.list

\* The list the program writes for Counter C1 has been written and read back.
C11_Witness ==
    /\ last.op = "decoded"
    /\ last.list = AccountMetas(Accs(NoKey, "M1", NoKey, "A1", "E1", "C1"))
    /\ last.decoded.metas[1].is_writable
    /\ ~last.decoded.metas[1].is_signer

\* C12: a Counter moves only along Uninitialized -> Initialized(owner, 0) ->
\* Initialized(owner, 1) -> ...: across every unit of work a slot that holds
\* or held a Counter is either unchanged, or was empty and has been created
\* by a successful initialize with the authority as owner and count 0, or
\* has been stepped from count to count + 1 by a successful transfer_hook on
\* that Counter.  Hence no Counter returns to Uninitialized and its owner
\* never changes.
C12_CounterStateMachine ==
    \A c \in Slots :
        (slots[c].kind = "counter" \/ last.pre[c].kind = "counter") =>
            \/ slots[c] = last.pre[c]
            \/ /\ last.pre[c] = EmptySlot
               /\ last.op = "initialize" /\ last.result = "Ok"
               /\ last.accs.counter = c
               /\ slots[c] = CounterRecord(last.accs.authority, 0)
            \/ /\ last.pre[c].kind = "counter"
               /\ IsHookUnit /\ last.result = "Ok"
               /\ last.hook.accs.counter = c
               /\ slots[c] = CounterRecord(last.pre[c].owner,
                                           last.pre[c].count + 1)

\* A second Counter is created while the first one stays as it is.
C12_Witness ==
    /\ last.op = "initialize" /\ last.result = "Ok"
    /\ last.accs.counter = "C2"
    /\ last.pre["C2"] = EmptySlot
    /\ slots["C2"] = CounterRecord("A2", 0)
    /\ last.pre["C1"].kind = "counter"
    /\ slots["C1"] = CounterRecord("A1", 0)

C14_HookOnlyReads ==
    (IsHookUnit /\ last.hook.calls = 1) =>
        /\ \A e \in ExtraSlots : slots[e] = last.pre[e]
        /\ last.ctx = "direct" => tok = last.tok
        /\ last.ctx = "host" =>
              tok = [last.tok EXCEPT
                       ![last.accs.source].transferring = FALSE,
                       ![last.accs.destination].transferring = FALSE]

\* A direct call on a forged account with the flag set succeeded, and the
\* flag is still set; the list of the mint is in place.
C14_Witness ==
    /\ last.op = "transfer_hook" /\ last.ctx = "direct"
    /\ last.result = "Ok" /\ last.hook.ran
    /\ last.accs.source = "F1"
    /\ tok["F1"].transferring
    /\ slots[last.accs.extra_account].kind = "bytes"

\* C15: once created, a Counter is changed by nothing but a successful
\* transfer_hook on that Counter.  Every other unit of work (initialize for
\* another authority, initialize_extra_account_meta_list, which holds the
\* Counter as a writable account, a transfer_hook on another Counter, every
\* failing or rejected instruction) leaves its owner and count as they were.
C15_CounterTouchedOnlyByHook ==
    \A c \in Slots :
        /\ last.pre[c].kind = "counter"
        /\ ~(/\ IsHookUnit /\ last.result = "Ok" /\ last.hook.ran
             /\ last.hook.accs.counter = c)
        => slots[c] = last.pre[c]

\* Authority A1 registered the Counter of A2 for a mint; that Counter still
\* belongs to A2.
C15_Witness ==
    /\ last.op = "initialize_extra_account_meta_list" /\ last.result = "Ok"
    /\ last.accs.authority = "A1" /\ last.accs.counter = "C2"
    /\ last.pre["C2"] = CounterRecord("A2", 0)
    /\ slots["C2"] = CounterRecord("A2", 0)

\* The other order of the body of transfer_hook: both flag checks first,
\* the increment only when they have passed.
ChecksFirstBody(mem, tk, accs, amount) ==
    LET src == check_token_account_is_transferring(tk[accs.source])
        dst == check_token_account_is_transferring(tk[accs.destination])
    IN  IF src # "Ok" THEN [result |-> src, counter |-> mem]
        ELSE IF dst # "Ok" THEN [result |-> dst, counter |-> mem]
        ELSE [result |-> "Ok",
              counter |-> [mem EXCEPT !.count = Increment(mem.count)]]

\* transfer_hook with that body: same validation, same exit.
ChecksFirst(sl, tk, accs, ix_data) ==
    IF Len(ix_data) < AmountLen
    THEN [result |-> "InstructionDidNotDeserialize", slots |-> sl]
    ELSE IF LoadCounter(sl, accs.counter) # "Ok"
         THEN [result |-> LoadCounter(sl, accs.counter), slots |-> sl]
    ELSE IF ExtraSeedsConstraint(accs) # "Ok"
         THEN [result |-> ExtraSeedsConstraint(accs), slots |-> sl]
    ELSE LET amount == FromLeBytes(SubSeq(ix_data, 1, AmountLen))
             body == ChecksFirstBody(sl[accs.counter], tk, accs, amount)
         IN  IF body.result # "Ok"
             THEN [result |-> body.result, slots |-> sl]
             ELSE [result |-> "Ok",
                   slots |-> Exit(sl, accs.counter, body.counter,
                                  TransferHookCounterMut)]

\* C16: the order of the increment and the flag checks cannot be observed.
\* Every invocation that reached transfer_hook ended with the result, and
\* left the slots in the state, that the checks-first order gives on the
\* same slots, token accounts, handles and amount.  Since the committed
\* states agree after every unit, they agree after every sequence of units.
C16_OrderNotObservable ==
    (IsHookUnit /\ last.hook.calls = 1) =>
        LET alt == ChecksFirst(last.pre, last.tok, last.hook.accs,
                               ToLeBytes(last.hook.amount, AmountLen))
        IN  /\ alt.result = last.result
            /\ alt.slots = slots

\* The source check passed on a forged account and the destination check
\* failed, after the in-memory count had been raised.
C16_Witness ==
    /\ IsHookUnit /\ last.hook.ran
    /\ last.result = "ProgramCalledOutsideOfTransfer"
    /\ last.accs.source = "F1" /\ last.accs.destination = "T2"
    /\ FlagTrue("F1")
    /\ last.hook.count = last.pre[last.accs.counter].count + 1
    /\ slots = last.pre

\* C17: initialize_extra_account_meta_list is all-or-nothing.  When it fails
\* (the bump does not prove the slot, the slot cannot be allocated or
\* assigned, the list cannot be written, an account is rejected) no slot has
\* changed, and if the slot derived from the mint is still empty a correct
\* call on any existing Counter succeeds from this state.  When it succeeds
\* all of its steps show: the slot belongs to the program and holds a list
\* that decodes.
C17_ExtraListAllOrNothing ==
    last.op = "initialize_extra_account_meta_list" =>
        LET e == last.accs.extra_account
            m == last.accs.mint
        IN  /\ last.result # "Ok" =>
                  /\ slots = last.pre
                  /\ slots[ExtraPda(m)] = EmptySlot =>
                        \A c \in CounterSlots :
                            slots[c].kind = "counter" =>
                                initialize_extra_account_meta_list(
                                    slots,
                                    Accs(NoKey, m, NoKey, "A1", ExtraPda(m), c),
                                    CanonicalBump(m)).result = "Ok"
            /\ last.result = "Ok" =>
                  /\ last.pre[e] = EmptySlot
                  /\ slots[e].prog = ProgramId
                  /\ ListDecode(slots[e].bytes).ok

\* A call with a bump that is not the canonical one failed on the signature
\* and left the slot empty, with a Counter in place for a later call.
C17_Witness ==
    /\ last.op = "initialize_extra_account_meta_list"
    /\ last.arg # CanonicalBump(last.accs.mint)
    /\ last.result = "MissingRequiredSignature"
    /\ last.pre[last.accs.counter].kind = "counter"
    /\ slots[last.accs.extra_account] = EmptySlot

\* C18: an extra-account list is only ever created for an initialized
\* Counter.  In every reachable state each stored list decodes to one entry
\* whose address is a slot holding a Counter record; and an
\* initialize_extra_account_meta_list whose counter handle does not hold a
\* Counter record fails and creates nothing.
C18_ListReferencesCounter ==
    /\ \A e \in ExtraSlots :
          slots[e] # EmptySlot =>
              LET list == ListDecode(slots[e].bytes)
                  k == KeyFromBytes(list.metas[1].address_config)
              IN  /\ list.ok /\ Len(list.metas) = 1
                  /\ k \in Slots
                  /\ slots[k].kind = "counter"
    /\ (/\ last.op = "initialize_extra_account_meta_list"
        /\ last.pre[last.accs.counter].kind # "counter")
       => /\ last.result # "Ok"
          /\ slots = last.pre

\* A call naming the derived slot and the canonical bump, but a Counter slot
\* nobody has initialized, failed and left the list slot empty.
C18_Witness ==
    /\ last.op = "initialize_extra_account_meta_list"
    /\ last.accs.extra_account = ExtraPda(last.accs.mint)
    /\ last.arg = CanonicalBump(last.accs.mint)
    /\ last.pre[last.accs.counter] = EmptySlot
    /\ last.result = "AccountNotInitialized"
    /\ slots[last.accs.extra_account] = EmptySlot

\* C19: transfer_hook is rejected before its body runs, and changes nothing,
\* whenever the extra-accounts handle is not the address derived from the
\* mint passed, or the counter handle does not hold a Counter record of this
\* program.  Hence whenever the body of transfer_hook ran, the Counter it was
\* given had been created by initialize.
C19_HookValidatesAccounts ==
    (IsHookUnit /\ last.hook.calls = 1) =>
        /\ (\/ last.hook.accs.extra_account # ExtraPda(last.hook.accs.mint)
            \/ last.pre[last.hook.accs.counter].kind # "counter"
            \/ last.pre[last.hook.accs.counter].prog # ProgramId)
           => /\ last.result # "Ok"
              /\ ~last.hook.ran
              /\ slots = last.pre
        /\ last.hook.ran =>
              /\ last.pre[last.hook.accs.counter].kind = "counter"
              /\ last.pre[last.hook.accs.counter].owner \in Authorities
              /\ last.hook.accs.counter =
                     CounterPda(last.pre[last.hook.accs.counter].owner)

\* With the transferring flag set on the forged account and the Counter in
\* place, a call naming the list slot of another mint was rejected.
C19_Witness ==
    /\ IsHookUnit /\ last.hook.calls = 1
    /\ FlagTrue(last.accs.source) /\ FlagTrue(last.accs.destination)
    /\ last.pre[last.accs.counter].kind = "counter"
    /\ last.accs.extra_account # ExtraPda(last.accs.mint)
    /\ last.result = "ConstraintSeeds"
    /\ slots = last.pre

====
